---- MODULE Spec2Model ----
(***************************************************************************)
(* clips.py: a name-addressed text store served by a multi-threaded        *)
(* CherryPy process.  The registry `clipboards` maps a lower-cased name to *)
(* a Clipboard (text, timestamp); a Clipboard's text is cleared lazily by  *)
(* the first get() that finds TIMEOUT_SECS elapsed since the last access.  *)
(*                                                                         *)
(* Strings are tuples of one-character strings, request bodies are tuples  *)
(* of byte values.  Worker threads interleave between the statements of    *)
(* get_clipboard, Clipboard.get and Clipboard.set.                         *)
(***************************************************************************)
EXTENDS Integers, Sequences, FiniteSets, TLC

VARIABLES now, ticks, nreq, clipboards, heap, pc, op, name, value, clipboard,
          tnow, status, hist, wordlist, words, location

vars == <<now, ticks, nreq, clipboards, heap, pc, op, name, value, clipboard,
          tnow, status, hist, wordlist, words, location>>

\* ---------------------------------------------------------------- constants

TIMEOUT_SECS == 900
NUM_RANDOM_WORDS == 3

\* ------------------------------------------------------------------- bounds

MaxTicks == 2
MaxReqs == 3
MaxConcurrent == 2

Threads == {"t1", "t2"}
Deltas == {TIMEOUT_SECS - 1, TIMEOUT_SECS}

\* ------------------------------------------------------------------ strings

UpperCase == <<"A", "B", "C", "R", "T">>
LowerCase == <<"a", "b", "c", "r", "t">>

CharLower(c) ==
    IF \E i \in DOMAIN UpperCase : UpperCase[i] = c
    THEN LowerCase[CHOOSE i \in DOMAIN UpperCase : UpperCase[i] = c]
    ELSE c

\* str.lower()
lower(s) == [i \in DOMAIN s |-> CharLower(s[i])]

EMPTY == << >>
RANDOM == <<"r", "a", "n", "d", "o", "m">>
TEXT == <<"t", "e", "x", "t">>

\* bytes.decode(): UTF-8, strict.  Bytes below 128 are one character each;
\* a lone byte of 128 or more is not valid UTF-8.
Chars == [b \in {120, 121} |-> IF b = 120 THEN "x" ELSE "y"]
Decodable(b) == \A i \in DOMAIN b : b[i] \in DOMAIN Chars
decode(b) == [i \in DOMAIN b |-> Chars[b[i]]]

\* ---------------------------------------------------------------- word list

CharUpper(c) ==
    IF \E i \in DOMAIN LowerCase : LowerCase[i] = c
    THEN UpperCase[CHOOSE i \in DOMAIN LowerCase : LowerCase[i] = c]
    ELSE c

\* str.capitalize(): first character upper-cased, the rest lower-cased
capitalize(s) ==
    [i \in DOMAIN s |-> IF i = 1 THEN CharUpper(s[i]) ELSE CharLower(s[i])]

NL == "\n"

\* Contents of wordlist.txt, one word per line: the last line with and without
\* its line terminator, and a file shorter than NUM_RANDOM_WORDS.
WordFile ==
    <<"a", "b", NL, "c", "A", "t", NL, "b", "a", "r", NL>>
WordFiles ==
    {WordFile,
     <<"a", "b", NL, "c", "A", "t", NL, "b", "a", "r">>,
     <<"a", "b", NL, "c", "A", "t", NL, "b", "a", "r", NL, "t", NL>>,
     <<"a", "b", NL, "c", "A", "t", NL>>}

\* The end of the first line of f: its first line terminator, else its end
LineEnd(f) ==
    IF \E i \in DOMAIN f : f[i] = NL
    THEN CHOOSE i \in DOMAIN f : f[i] = NL /\ \A j \in 1..(i - 1) : f[j] # NL
    ELSE Len(f)

\* file.readlines(): the lines of f, each with its line terminator
RECURSIVE readlines(_)
readlines(f) ==
    IF f = << >> THEN << >>
    ELSE <<SubSeq(f, 1, LineEnd(f))>> \o readlines(SubSeq(f, LineEnd(f) + 1, Len(f)))

read_wordlist(f) == readlines(f)

\* random.choices(population, k=k): k positions, repeats allowed
choices(population, k) ==
    {[i \in 1..k |-> population[ix[i]]] : ix \in [1..k -> DOMAIN population]}

\* random.sample(population, k): k different positions of the population, in
\* any order
sample(population, k) ==
    {[i \in 1..k |-> population[ix[i]]] :
        ix \in {f \in [1..k -> DOMAIN population] :
                  \A i, j \in 1..k : i # j => f[i] # f[j]}}

\* "".join(strs)
RECURSIVE join(_)
join(strs) == IF strs = << >> THEN << >> ELSE Head(strs) \o join(Tail(strs))

\* do_random, lines 195-196: the target of the redirect
random_url(ws) == <<"/">> \o join([i \in DOMAIN ws |-> capitalize(ws[i])])

\* ----------------------------------------------------------------- requests

Methods == {"GET", "POST", "PUT"}
ContentTypes == {"text/plain", "application/json"}
Bodies == {<<120>>, <<121>>, <<255>>}
RawNames == {<<"A", "b">>, <<"a", "b">>, <<"c">>}
TextPaths == {<<s, TEXT>> : s \in RawNames} \cup {<<<<"c">>, <<"T", "e", "x", "t">>>>}
OtherPaths == {<< >>, <<RANDOM>>, <<<<"R", "a", "n", "d", "o", "m">>>>, <<<<"A", "b">>>>,
               <<<<"c">>, <<"c">>>>, <<<<"c">>, TEXT, <<"c">>>>}

Request(m, p, c, b) == [method |-> m, segs |-> p, ctype |-> c, body |-> b]

\* The requests the workers are offered.  Content type and body only matter
\* to POST, so the other methods carry one of each.
Requests ==
    {Request("POST", p, c, b) : p \in TextPaths, c \in ContentTypes, b \in Bodies}
      \cup {Request(m, p, "text/plain", <<120>>) : m \in {"GET", "PUT"}, p \in TextPaths}
      \cup {Request(m, p, "text/plain", <<120>>) : m \in {"GET", "POST"}, p \in OtherPaths}

\* ------------------------------------------------------------------ routing
\* The thread-local part of a request: which handler it reaches and with what
\* arguments.  status 0 means the request goes on to the registry.

Reject(code) == [status |-> code, op |-> "none", name |-> EMPTY, value |-> EMPTY]

get_text(n) == [status |-> 0, op |-> "get", name |-> n, value |-> EMPTY]

set_text_unchecked(r, n) ==
    IF ~Decodable(r.body) THEN Reject(500)
    ELSE [status |-> 0, op |-> "set", name |-> n, value |-> decode(r.body)]

set_text(r, n) ==
    IF r.ctype # "text/plain" THEN Reject(400)
    ELSE IF ~Decodable(r.body) THEN Reject(500)
    ELSE [status |-> 0, op |-> "set", name |-> n, value |-> decode(r.body)]

do_text_any_method(r, n) ==
    IF r.method = "GET" THEN get_text(n) ELSE set_text(r, n)

do_text(r, n) ==
    IF r.method = "GET" THEN get_text(n)
    ELSE IF r.method = "POST" THEN set_text(r, n)
    ELSE Reject(405)

do_index == Reject(200)
do_clip == Reject(200)
do_random == Reject(302)

default_raw(r) ==
    IF Len(r.segs) = 0 THEN do_index
    ELSE IF Len(r.segs) = 1 /\ lower(r.segs[1]) = RANDOM THEN do_random
    ELSE IF Len(r.segs) = 1 THEN do_clip
    ELSE IF Len(r.segs) = 2 /\ lower(r.segs[2]) = TEXT
         THEN do_text(r, r.segs[1])
    ELSE Reject(404)

\* do_clip filling the editor from the clipboard on the server
default_prefilled(r) ==
    IF Len(r.segs) = 0 THEN do_index
    ELSE IF Len(r.segs) = 1 /\ lower(r.segs[1]) = RANDOM THEN do_random
    ELSE IF Len(r.segs) = 1 THEN get_text(lower(r.segs[1]))
    ELSE IF Len(r.segs) = 2 /\ lower(r.segs[2]) = TEXT
         THEN do_text(r, lower(r.segs[1]))
    ELSE Reject(404)

default(r) ==
    IF Len(r.segs) = 0 THEN do_index
    ELSE IF Len(r.segs) = 1 /\ lower(r.segs[1]) = RANDOM THEN do_random
    ELSE IF Len(r.segs) = 1 THEN do_clip
    ELSE IF Len(r.segs) = 2 /\ lower(r.segs[2]) = TEXT
         THEN do_text(r, lower(r.segs[1]))
    ELSE Reject(404)

\* -------------------------------------------------------------------- state

NoObj == 0

\* hist is the observable trace of the registry requests: an "inv" event with
\* the name and body as sent when default() routes one to get_text/set_text,
\* a "ret" event with the normalised name, the text returned (get) or stored
\* (set) and the timestamp the request left on the clipboard when it returns.
Event(kind, o, n, txt, tm) ==
    [kind |-> kind, op |-> o, name |-> n, text |-> txt, time |-> tm]

Start(f) ==
    /\ wordlist = read_wordlist(f)
    /\ words = << >>
    /\ location = EMPTY
    /\ now = 0
    /\ ticks = 0
    /\ nreq = 0
    /\ clipboards = << >>
    /\ heap = << >>
    /\ pc = [t \in Threads |-> "idle"]
    /\ op = [t \in Threads |-> "none"]
    /\ name = [t \in Threads |-> EMPTY]
    /\ value = [t \in Threads |-> EMPTY]
    /\ clipboard = [t \in Threads |-> NoObj]
    /\ tnow = [t \in Threads |-> 0]
    /\ status = 0
    /\ hist = << >>

Init == Start(WordFile)

\* time.time() moves on between any two statements.
Tick ==
    /\ ticks < MaxTicks
    /\ \E d \in Deltas : now' = now + d
    /\ ticks' = ticks + 1
    /\ UNCHANGED <<wordlist, words, location>>
    /\ UNCHANGED <<nreq, clipboards, heap, pc, op, name, value, clipboard,
                   tnow, status, hist>>

\* A response that is not a redirect carries no Location.
NoRedirect == words' = << >> /\ location' = EMPTY

Finish(t) ==
    /\ pc' = [pc EXCEPT ![t] = "idle"]
    /\ op' = [op EXCEPT ![t] = "none"]
    /\ name' = [name EXCEPT ![t] = EMPTY]
    /\ value' = [value EXCEPT ![t] = EMPTY]
    /\ clipboard' = [clipboard EXCEPT ![t] = NoObj]
    /\ tnow' = [tnow EXCEPT ![t] = 0]

\* default() of every request on offer.
Route == [r \in Requests |-> default(r)]

\* A worker thread takes a request through default(), do_text() and the
\* thread-local head of get_text()/set_text().  A request that is answered
\* without reaching the registry is answered here.
Receive(t, r) ==
    /\ pc[t] = "idle"
    /\ nreq' = nreq + 1
    /\ LET d == Route[r] IN
         IF d = do_random
         THEN /\ UNCHANGED <<pc, op, name, value, clipboard, tnow, hist>>
              /\ IF Len(wordlist) < NUM_RANDOM_WORDS
                 THEN status' = 500 /\ NoRedirect
                 ELSE /\ status' = d.status
                      /\ \E ws \in sample(wordlist, NUM_RANDOM_WORDS) :
                             /\ words' = ws
                             /\ location' = random_url(ws)
         ELSE IF d.status # 0
         THEN /\ status' = d.status
              /\ NoRedirect
              /\ UNCHANGED <<pc, op, name, value, clipboard, tnow, hist>>
         ELSE /\ pc' = [pc EXCEPT ![t] = "lookup"]
              /\ op' = [op EXCEPT ![t] = d.op]
              /\ name' = [name EXCEPT ![t] = d.name]
              /\ value' = [value EXCEPT ![t] = d.value]
              /\ hist' = Append(hist, Event("inv", d.op, r.segs[1],
                                       IF d.op = "set" THEN r.body ELSE EMPTY,
                                       now))
              /\ UNCHANGED <<clipboard, tnow, status, words, location>>
    /\ UNCHANGED <<now, ticks, clipboards, heap, wordlist>>

AfterLookup(t) == IF op[t] = "get" THEN "get_check" ELSE "set_text"

\* dict.get(key): the value stored under key, else None
dict_get_any(d, k) ==
    IF DOMAIN d = {} THEN NoObj ELSE d[CHOOSE x \in DOMAIN d : TRUE]

dict_get(d, k) == IF k \in DOMAIN d THEN d[k] ELSE NoObj

\* get_clipboard, line 199: clipboard = clipboards.get(name)
Lookup(t) ==
    /\ pc[t] = "lookup"
    /\ clipboard' = [clipboard EXCEPT ![t] = dict_get(clipboards, name[t])]
    /\ pc' = [pc EXCEPT ![t] = IF clipboard'[t] = NoObj THEN "create"
                               ELSE AfterLookup(t)]
    /\ UNCHANGED <<wordlist, words, location>>
    /\ UNCHANGED <<now, ticks, nreq, clipboards, heap, op, name, value, tnow,
                   status, hist>>

\* Clipboard.__init__
EpochClipboard(n) == [name |-> n, text |-> EMPTY, timestamp |-> 0]
NewClipboard(n) == [name |-> n, text |-> EMPTY, timestamp |-> now]

\* get_clipboard, line 201, right-hand side: Clipboard(name)
Create(t) ==
    /\ pc[t] = "create"
    /\ heap' = Append(heap, NewClipboard(name[t]))
    /\ clipboard' = [clipboard EXCEPT ![t] = Len(heap) + 1]
    /\ pc' = [pc EXCEPT ![t] = "store"]
    /\ UNCHANGED <<wordlist, words, location>>
    /\ UNCHANGED <<now, ticks, nreq, clipboards, op, name, value, tnow, status,
                   hist>>

\* clipboards = {name: clipboard} in place of clipboards[name] = clipboard
PutAlone(d, k, v) == [x \in {k} |-> v]

Put(d, k, v) == [x \in DOMAIN d \cup {k} |-> IF x = k THEN v ELSE d[x]]

\* get_clipboard, line 201, the assignment clipboards[name] = clipboard
Store(t) ==
    /\ pc[t] = "store"
    /\ clipboards' = Put(clipboards, name[t], clipboard[t])
    /\ pc' = [pc EXCEPT ![t] = AfterLookup(t)]
    /\ UNCHANGED <<wordlist, words, location>>
    /\ UNCHANGED <<now, ticks, nreq, heap, op, name, value, clipboard, tnow,
                   status, hist>>

\* The two attribute stores of Clipboard.get and Clipboard.set
Untouched(c, tm) == c
Touched(c, tm) == [c EXCEPT !.timestamp = tm]

TextKept(c, v) == c
WithText(c, v) == [c EXCEPT !.text = v]

\* Clipboard.get, line 26: the condition
ExpiredStrict(c) == c.timestamp + TIMEOUT_SECS < now
Expired(c) == c.timestamp + TIMEOUT_SECS <= now

\* Clipboard.get, line 26: the expiry test
GetCheck(t) ==
    /\ pc[t] = "get_check"
    /\ pc' = [pc EXCEPT ![t] = IF Expired(heap[clipboard[t]])
                               THEN "get_clear" ELSE "get_time"]
    /\ UNCHANGED <<wordlist, words, location>>
    /\ UNCHANGED <<now, ticks, nreq, clipboards, heap, op, name, value,
                   clipboard, tnow, status, hist>>

\* Clipboard.get, line 27: self.text = ""
GetClear(t) ==
    /\ pc[t] = "get_clear"
    /\ heap' = [heap EXCEPT ![clipboard[t]] = WithText(@, EMPTY)]
    /\ pc' = [pc EXCEPT ![t] = "get_time"]
    /\ UNCHANGED <<wordlist, words, location>>
    /\ UNCHANGED <<now, ticks, nreq, clipboards, op, name, value, clipboard,
                   tnow, status, hist>>

\* Clipboard.get line 28 / Clipboard.set line 33, right-hand side: time.time()
ReadClock(t) ==
    /\ pc[t] \in {"get_time", "set_time"}
    /\ tnow' = [tnow EXCEPT ![t] = now]
    /\ pc' = [pc EXCEPT ![t] = IF pc[t] = "get_time" THEN "get_stamp"
                               ELSE "set_stamp"]
    /\ UNCHANGED <<wordlist, words, location>>
    /\ UNCHANGED <<now, ticks, nreq, clipboards, heap, op, name, value,
                   clipboard, status, hist>>

\* Clipboard.get, line 28: the store into self.timestamp
GetStamp(t) ==
    /\ pc[t] = "get_stamp"
    /\ heap' = [heap EXCEPT ![clipboard[t]] = Touched(@, tnow[t])]
    /\ pc' = [pc EXCEPT ![t] = "get_ret"]
    /\ UNCHANGED <<wordlist, words, location>>
    /\ UNCHANGED <<now, ticks, nreq, clipboards, op, name, value, clipboard,
                   tnow, status, hist>>

\* Clipboard.get, line 29, and get_text's return: the response body
GetReturn(t) ==
    /\ pc[t] = "get_ret"
    /\ status' = 200
    /\ hist' = Append(hist, Event("ret", "get", name[t],
                                  heap[clipboard[t]].text, tnow[t]))
    /\ Finish(t)
    /\ NoRedirect
    /\ UNCHANGED <<now, ticks, nreq, clipboards, heap, wordlist>>

\* Clipboard.set, line 32: the text is stored whatever the timestamp
StoreIfFresh(c, v) == IF Expired(c) THEN WithText(c, EMPTY) ELSE WithText(c, v)
StoreText(c, v) == WithText(c, v)

\* The text kept in one attribute shared by every Clipboard
SetTextShared(t) ==
    /\ pc[t] = "set_text"
    /\ heap' = [i \in DOMAIN heap |-> StoreText(heap[i], value[t])]
    /\ pc' = [pc EXCEPT ![t] = "set_time"]
    /\ UNCHANGED <<wordlist, words, location>>
    /\ UNCHANGED <<now, ticks, nreq, clipboards, op, name, value, clipboard,
                   tnow, status, hist>>

\* Clipboard.set, line 32: self.text = value
SetText(t) ==
    /\ pc[t] = "set_text"
    /\ heap' = [heap EXCEPT ![clipboard[t]] = StoreText(@, value[t])]
    /\ pc' = [pc EXCEPT ![t] = "set_time"]
    /\ UNCHANGED <<wordlist, words, location>>
    /\ UNCHANGED <<now, ticks, nreq, clipboards, op, name, value, clipboard,
                   tnow, status, hist>>

\* Clipboard.set, line 33: the store into self.timestamp; set_text returns
SetStamp(t) ==
    /\ pc[t] = "set_stamp"
    /\ heap' = [heap EXCEPT ![clipboard[t]] = Touched(@, tnow[t])]
    /\ status' = 200
    /\ hist' = Append(hist, Event("ret", "set", name[t], value[t], tnow[t]))
    /\ Finish(t)
    /\ NoRedirect
    /\ UNCHANGED <<now, ticks, nreq, clipboards, wordlist>>

Next ==
    \/ Tick
    \/ \E t \in Threads, r \in Requests : nreq < MaxConcurrent /\ Receive(t, r)
    \/ \E t \in Threads : Lookup(t)
    \/ \E t \in Threads : Create(t)
    \/ \E t \in Threads : Store(t)
    \/ \E t \in Threads : GetCheck(t)
    \/ \E t \in Threads : GetClear(t)
    \/ \E t \in Threads : ReadClock(t)
    \/ \E t \in Threads : GetStamp(t)
    \/ \E t \in Threads : GetReturn(t)
    \/ \E t \in Threads : SetText(t)
    \/ \E t \in Threads : SetStamp(t)

Spec == Init /\ [][Next]_vars

\* The same server with a single worker thread: one request at a time.
Worker == CHOOSE t \in Threads : TRUE

SeqNext ==
    \/ Tick
    \/ \E r \in Requests : nreq < MaxReqs /\ Receive(Worker, r)
    \/ Lookup(Worker)
    \/ Create(Worker)
    \/ Store(Worker)
    \/ GetCheck(Worker)
    \/ GetClear(Worker)
    \/ ReadClock(Worker)
    \/ GetStamp(Worker)
    \/ GetReturn(Worker)
    \/ SetText(Worker)
    \/ SetStamp(Worker)

SeqSpec == Init /\ [][SeqNext]_vars

\* The name generator alone: GET /random against each word list.
RandomRequests == {r \in Requests : Route[r] = do_random}

GenInit == \E f \in WordFiles : Start(f)

GenNext ==
    \/ Tick
    \/ \E t \in Threads, r \in RandomRequests : nreq < MaxReqs /\ Receive(t, r)

GenSpec == GenInit /\ [][GenNext]_vars

\* ------------------------------------------------------------------- claims

\* The text a client means by a request body: the characters whose UTF-8
\* encoding the body is.
Utf8Text(b) ==
    IF b = <<120>> THEN <<"x">> ELSE IF b = <<121>> THEN <<"y">> ELSE << >>

IsInv(e, o) == e.kind = "inv" /\ e.op = o
IsRet(e, o) == e.kind = "ret" /\ e.op = o
IsRetOn(e, n) == e.kind = "ret" /\ e.name = n

\* C1: a Write(n, t) immediately followed by a Read(n), less than
\* TIMEOUT_SECS after the Write, returns exactly t, whatever came before.
C1_WriteThenRead ==
    \A i \in 1..(Len(hist) - 3) :
        (/\ IsInv(hist[i], "set") /\ IsRet(hist[i + 1], "set")
         /\ IsInv(hist[i + 2], "get") /\ IsRet(hist[i + 3], "get")
         /\ hist[i + 2].name = hist[i].name
         /\ hist[i + 3].time < hist[i + 1].time + TIMEOUT_SECS)
        => hist[i + 3].text = Utf8Text(hist[i].text)

C1_Witness ==
    \E i \in 3..(Len(hist) - 3) :
        /\ IsInv(hist[i], "set") /\ IsRet(hist[i + 1], "set")
        /\ IsInv(hist[i + 2], "get") /\ IsRet(hist[i + 3], "get")
        /\ hist[i + 2].name = hist[i].name
        /\ hist[i + 3].time < hist[i + 1].time + TIMEOUT_SECS
        /\ hist[i + 3].text = <<"y">>
        /\ IsRet(hist[i - 1], "get") /\ hist[i - 1].name = hist[i + 1].name
        /\ hist[i + 1].time >= hist[i - 1].time + TIMEOUT_SECS

\* C2: with the last access a Write at time t0 and nothing in between, a Read
\* before t0 + TIMEOUT_SECS returns the written text and a Read at or after
\* t0 + TIMEOUT_SECS returns the empty text.
C2_ExpiryBoundary ==
    \A i \in 1..(Len(hist) - 2) :
        (/\ IsRet(hist[i], "set")
         /\ IsInv(hist[i + 1], "get") /\ IsRet(hist[i + 2], "get")
         /\ lower(hist[i + 1].name) = hist[i].name)
        => /\ hist[i + 2].time < hist[i].time + TIMEOUT_SECS
                => hist[i + 2].text = hist[i].text
           /\ hist[i + 1].time >= hist[i].time + TIMEOUT_SECS
                => hist[i + 2].text = EMPTY

C2_Witness ==
    \E i \in 1..(Len(hist) - 2) :
        /\ IsRet(hist[i], "set") /\ hist[i].text # EMPTY
        /\ IsInv(hist[i + 1], "get") /\ IsRet(hist[i + 2], "get")
        /\ lower(hist[i + 1].name) = hist[i].name
        /\ hist[i + 1].time = hist[i].time + TIMEOUT_SECS
        /\ hist[i + 2].text = EMPTY

\* The accesses to n that returned, among the events i..j
RetsOn(n, i, j) == {k \in i..j : IsRetOn(hist[k], n)}
Max(S) == CHOOSE x \in S : \A y \in S : y <= x

\* Every access to n after event w, up to event j, came less than
\* TIMEOUT_SECS after the access to n before it.
KeptAlive(n, w, j) ==
    \A k \in RetsOn(n, w + 1, j) :
        hist[k].time < hist[Max(RetsOn(n, w, k - 1))].time + TIMEOUT_SECS

\* C3: while each access to n comes less than TIMEOUT_SECS after the one
\* before, every Read returns the text of the most recent Write, however long
\* ago that Write was.
C3_TouchKeepsAlive ==
    \A j \in 1..Len(hist) :
        IsRet(hist[j], "get") =>
            LET n == hist[j].name
                W == {i \in 1..(j - 1) : IsRet(hist[i], "set") /\ hist[i].name = n}
            IN  (W # {} /\ KeptAlive(n, Max(W), j))
                    => hist[j].text = hist[Max(W)].text

C3_Witness ==
    \E j \in 1..Len(hist) :
        /\ IsRet(hist[j], "get") /\ hist[j].text # EMPTY
        /\ LET n == hist[j].name
               W == {i \in 1..(j - 1) : IsRet(hist[i], "set") /\ hist[i].name = n}
           IN  /\ W # {}
               /\ KeptAlive(n, Max(W), j)
               /\ hist[j].time >= hist[Max(W)].time + TIMEOUT_SECS

\* No request is in flight.
Quiet == \A t \in Threads : pc[t] = "idle"

Names == {lower(s) : s \in RawNames}

\* C4: racing first accesses to one unseen name create exactly one Clipboard,
\* and every caller past get_clipboard holds the instance the registry holds.
C4_OneInstancePerName ==
    /\ \A i, j \in DOMAIN heap : heap[i].name = heap[j].name => i = j
    /\ \A t \in Threads :
          pc[t] \notin {"idle", "lookup", "create", "store"}
              => dict_get(clipboards, name[t]) = clipboard[t]

\* C5: Get and Set on one Clipboard are atomic to each other: when a Get
\* clears the text, the expiry test it made still holds and no Set on the
\* same Clipboard is between storing its text and storing its timestamp.
C5_GetSetAtomic ==
    [][\A t \in Threads :
          GetClear(t) =>
              /\ Expired(heap[clipboard[t]])
              /\ \A u \in Threads \ {t} :
                    ~(clipboard[u] = clipboard[t]
                        /\ pc[u] \in {"set_time", "set_stamp"})]_vars

\* What a Read(n) issued in this state returns.
ReadNow(n) ==
    IF n \notin DOMAIN clipboards THEN EMPTY
    ELSE IF Expired(heap[clipboards[n]]) THEN EMPTY
    ELSE heap[clipboards[n]].text

SetsOn(n) == {k \in 1..Len(hist) : hist[k].op = "set" /\ lower(hist[k].name) = n}

\* C6: once every request has returned, if the last Write to n to return (one
\* that no other Write to n overlapped) stamped the clipboard less than
\* TIMEOUT_SECS ago, Read(n) returns its text.
C6_NoLostWrite ==
    Quiet =>
        \A n \in Names :
            LET R == {k \in SetsOn(n) : hist[k].kind = "ret"}
                j == Max(R)
                i == Max({k \in SetsOn(n) : hist[k].kind = "inv" /\ k < j})
            IN  (/\ R # {}
                 /\ \A k \in SetsOn(n) \ {i, j} : k < i
                 /\ now < hist[j].time + TIMEOUT_SECS)
                => ReadNow(n) = hist[j].text

\* The texts passed to a Write on n among the first j events
WrittenTo(n, j) ==
    {Utf8Text(hist[k].text) : k \in {x \in SetsOn(n) : x <= j /\ hist[x].kind = "inv"}}

\* C7: whatever the interleaving, the text held by a Clipboard of name n and
\* the text any Read(n) returns is empty or was passed to a Write on n.
C7_NoCrossContamination ==
    /\ \A n \in DOMAIN clipboards : heap[clipboards[n]].name = n
    /\ \A i \in DOMAIN heap :
          heap[i].text \in {EMPTY} \cup WrittenTo(heap[i].name, Len(hist))
    /\ \A j \in 1..Len(hist) :
          IsRet(hist[j], "get")
              => hist[j].text \in {EMPTY} \cup WrittenTo(hist[j].name, j)

C7_Witness ==
    \E t, u \in Threads :
        /\ name[t] # name[u]
        /\ pc[t] = "set_time" /\ pc[u] = "set_time"
        /\ heap[clipboard[t]].text = <<"x">>
        /\ heap[clipboard[u]].text = <<"y">>

\* C8: names that differ only in letter case address one Clipboard: a Write
\* under one spelling is returned by a Read under another, a Read under one
\* spelling keeps the text alive for a Read under another, and the registry
\* holds no two keys that are equal after lower-casing.
C8_CaseInsensitive ==
    /\ \A k1, k2 \in DOMAIN clipboards : lower(k1) = lower(k2) => k1 = k2
    /\ \A i \in 1..(Len(hist) - 3) :
          (/\ hist[i].kind = "inv" /\ hist[i + 1].kind = "ret"
           /\ IsInv(hist[i + 2], "get") /\ IsRet(hist[i + 3], "get")
           /\ lower(hist[i + 2].name) = lower(hist[i].name)
           /\ hist[i + 3].time < hist[i + 1].time + TIMEOUT_SECS)
          => hist[i + 3].text = hist[i + 1].text

C8_Witness ==
    \E i \in 1..(Len(hist) - 5) :
        /\ IsInv(hist[i], "set") /\ hist[i].name = <<"A", "b">>
        /\ IsInv(hist[i + 2], "get") /\ hist[i + 2].name = <<"a", "b">>
        /\ IsRet(hist[i + 3], "get") /\ hist[i + 3].text = <<"x">>
        /\ IsInv(hist[i + 4], "get") /\ hist[i + 4].name = <<"A", "b">>
        /\ IsRet(hist[i + 5], "get") /\ hist[i + 5].text = <<"x">>
        /\ hist[i + 5].time >= hist[i + 1].time + TIMEOUT_SECS
        /\ Cardinality(DOMAIN clipboards) = 1

IsTextPath(segs) == Len(segs) = 2 /\ lower(segs[2]) = TEXT

\* The request ends in Receive: the worker goes on to no registry access.
Answered(t, code) ==
    /\ status' = code
    /\ pc'[t] = "idle"
    /\ UNCHANGED <<clipboards, heap, hist>>

C10_AsStated ==
    [][\A t \in Threads, r \in Requests :
          Receive(t, r) =>
              /\ (Len(r.segs) = 2 /\ r.segs[2] = TEXT
                    /\ r.method \notin {"GET", "POST"})
                   => Answered(t, 405)
              /\ ~(Len(r.segs) \in {0, 1} \/ (Len(r.segs) = 2 /\ r.segs[2] = TEXT))
                   => Answered(t, 404)]_vars

\* C10, amended: the second segment is matched as "text" in any letter case.
C10_RejectsTouchNothing ==
    [][\A t \in Threads, r \in Requests :
          Receive(t, r) =>
              /\ (IsTextPath(r.segs) /\ r.method \notin {"GET", "POST"})
                   => Answered(t, 405)
              /\ ~(Len(r.segs) \in {0, 1} \/ IsTextPath(r.segs))
                   => Answered(t, 404)]_vars

C10_Witness ==
    /\ status = 404
    /\ \E n \in DOMAIN clipboards : heap[clipboards[n]].text # EMPTY

\* The word on a line of the word list: the line without its terminator
Word(l) ==
    IF l # << >> /\ l[Len(l)] = NL THEN SubSeq(l, 1, Len(l) - 1) ELSE l

\* C11: a generated name is built from NUM_RANDOM_WORDS words of the word list
\* and no word occurs twice among them, whatever random.sample draws.
C11_NoRepeatedWord ==
    words # << >> =>
        /\ Len(words) = NUM_RANDOM_WORDS
        /\ \A i \in DOMAIN words : \E k \in DOMAIN wordlist : words[i] = wordlist[k]
        /\ \A i, j \in DOMAIN words : i # j => Word(words[i]) # Word(words[j])

C11_Witness ==
    /\ status = 302
    /\ Len(words) = NUM_RANDOM_WORDS
    /\ Len(wordlist) > NUM_RANDOM_WORDS
    /\ nreq = MaxReqs

\* C12: the Location of the redirect is "/" followed by the three chosen
\* words, each capitalized, with nothing between or after them.
C12_NameIsJoinedWords ==
    status = 302 =>
        location = <<"/">> \o capitalize(Word(words[1]))
                          \o capitalize(Word(words[2]))
                          \o capitalize(Word(words[3]))

\* C13: the first access to a name makes a Clipboard with empty text, stamped
\* with the time of the access, and stores it in the registry; a Read that is
\* the first access to its name succeeds with the empty text and leaves an
\* entry for the name.
C13_FirstAccessCreates ==
    /\ pc[Worker] = "store" =>
           LET c == heap[clipboard[Worker]] IN
               /\ c.name = name[Worker] /\ c.text = EMPTY
               /\ hist[Len(hist)].time <= c.timestamp /\ c.timestamp <= now
    /\ \A j \in 1..Len(hist) :
           (IsRet(hist[j], "get") /\ RetsOn(hist[j].name, 1, j - 1) = {})
               => /\ hist[j].text = EMPTY
                  /\ hist[j].name \in DOMAIN clipboards
                  /\ heap[clipboards[hist[j].name]].name = hist[j].name

C13_Witness ==
    /\ Quiet /\ status = 200
    /\ Len(hist) = 2 /\ IsRet(hist[2], "get") /\ hist[2].text = EMPTY
    /\ hist[1].time = TIMEOUT_SECS
    /\ DOMAIN clipboards = {hist[2].name}
    /\ heap[clipboards[hist[2].name]].timestamp = TIMEOUT_SECS

\* C14: no step of any request removes a name from the registry, under every
\* interleaving and also when a clipboard expires.
C14_RegistryOnlyGrows == [][DOMAIN clipboards \subseteq DOMAIN clipboards']_vars

C14_Witness ==
    \E i, j \in 1..Len(hist) :
        /\ i < j
        /\ IsRet(hist[i], "set") /\ hist[i].text # EMPTY
        /\ IsRet(hist[j], "get") /\ hist[j].text = EMPTY
        /\ hist[j].name = hist[i].name
        /\ hist[j].name \in DOMAIN clipboards
        /\ heap[clipboards[hist[j].name]].text = EMPTY

\* C15: every Get and every Set leaves the clipboard stamped with the clock
\* value it read during the request, whether or not the expiry fired; a Get
\* that comes TIMEOUT_SECS or more after the access before it returns the
\* empty text, leaves the text empty and leaves the clipboard unexpired.
C15_AccessRestartsWindow ==
    Quiet =>
        \A n \in DOMAIN clipboards :
            RetsOn(n, 1, Len(hist)) # {} =>
                LET j == Max(RetsOn(n, 1, Len(hist)))
                    P == RetsOn(n, 1, j - 1)
                    c == heap[clipboards[n]]
                IN  /\ c.timestamp = hist[j].time
                    /\ hist[j - 1].time <= c.timestamp /\ c.timestamp <= now
                    /\ (/\ IsRet(hist[j], "get") /\ P # {}
                        /\ hist[Max(P)].time + TIMEOUT_SECS <= hist[j - 1].time)
                         => /\ hist[j].text = EMPTY /\ c.text = EMPTY
                            /\ (now < hist[j].time + TIMEOUT_SECS => ~Expired(c))

C15_Witness ==
    /\ Quiet /\ Len(hist) = 4
    /\ IsRet(hist[2], "set") /\ hist[2].text # EMPTY /\ hist[2].time = 0
    /\ IsRet(hist[4], "get") /\ hist[4].name = hist[2].name
    /\ hist[3].time = TIMEOUT_SECS /\ hist[4].text = EMPTY
    /\ heap[clipboards[hist[4].name]].timestamp = TIMEOUT_SECS
    /\ now = 2 * TIMEOUT_SECS - 1

\* A Write on a clipboard last accessed TIMEOUT_SECS or more before the Write
\* arrived, followed by a Read less than TIMEOUT_SECS after the Write.
WriteOnExpired(i) ==
    /\ IsInv(hist[i], "set") /\ IsRet(hist[i + 1], "set")
    /\ IsInv(hist[i + 2], "get") /\ IsRet(hist[i + 3], "get")
    /\ hist[i + 3].name = hist[i + 1].name
    /\ RetsOn(hist[i + 1].name, 1, i - 1) # {}
    /\ hist[Max(RetsOn(hist[i + 1].name, 1, i - 1))].time + TIMEOUT_SECS
           <= hist[i].time
    /\ hist[i + 3].time < hist[i + 1].time + TIMEOUT_SECS

\* C16: Set makes no expiry check: a Write on a clipboard whose last access
\* is TIMEOUT_SECS or more in the past stores the new text and restamps the
\* clipboard, and a Read less than TIMEOUT_SECS later returns the new text.
C16_SetIgnoresExpiry ==
    \A i \in 1..(Len(hist) - 3) :
        WriteOnExpired(i)
            => /\ hist[i + 1].text = Utf8Text(hist[i].text)
               /\ hist[i + 1].time >= hist[i].time
               /\ hist[i + 3].text = hist[i + 1].text

C16_Witness ==
    \E i \in 1..(Len(hist) - 3) :
        /\ WriteOnExpired(i)
        /\ IsRet(hist[i - 1], "set") /\ hist[i - 1].text = <<"y">>
        /\ hist[i + 3].text = <<"x">>
        /\ hist[i + 3].time = hist[i + 1].time + TIMEOUT_SECS - 1

\* C17: once a Read of n has returned the empty text, every later Read of n
\* returns the empty text until a Write of a non-empty text to n returns:
\* text that expired does not come back, however the accesses are spaced.
C17_ExpiredStaysEmpty ==
    \A i, j \in 1..Len(hist) :
        (/\ i < j
         /\ IsRet(hist[i], "get") /\ hist[i].text = EMPTY
         /\ IsRet(hist[j], "get") /\ hist[j].name = hist[i].name
         /\ hist[j].text # EMPTY)
        => \E k \in (i + 1)..(j - 1) :
               /\ IsRet(hist[k], "set") /\ hist[k].name = hist[i].name
               /\ hist[k].text # EMPTY

\* A text is written, the Read TIMEOUT_SECS later finds it expired, and the
\* Read right after that one finds it empty still.
C17_Witness ==
    /\ Len(hist) = 6
    /\ IsRet(hist[2], "set") /\ hist[2].text # EMPTY
    /\ IsRet(hist[4], "get") /\ hist[4].name = hist[2].name
    /\ hist[3].time >= hist[2].time + TIMEOUT_SECS /\ hist[4].text = EMPTY
    /\ IsRet(hist[6], "get") /\ hist[6].name = hist[2].name
    /\ hist[6].time = hist[4].time /\ hist[6].text = EMPTY

\* C18: GET / (index), GET /random (redirect) and GET /<name> (editor page)
\* are answered at once and leave the registry as it was: no entry is made,
\* no text is changed and no timestamp is refreshed.
C18_PagesTouchNothing ==
    [][\A t \in Threads, r \in Requests :
          (r.method = "GET" /\ Len(r.segs) <= 1 /\ Receive(t, r))
              => IF Len(r.segs) = 1 /\ lower(r.segs[1]) = RANDOM
                 THEN Answered(t, 302) /\ location' # EMPTY
                 ELSE Answered(t, 200) /\ location' = EMPTY]_vars

C18_Witness ==
    /\ status = 302 /\ location # EMPTY
    /\ Len(hist) = 2 /\ IsRet(hist[2], "set")
    /\ heap[clipboards[hist[2].name]].text = <<"x">>
    /\ heap[clipboards[hist[2].name]].timestamp = TIMEOUT_SECS - 1
    /\ now = 2 * TIMEOUT_SECS - 1

\* C19: the clock never going back, the timestamp of a clipboard never
\* decreases, under every interleaving of concurrent Get and Set.
C19_TimestampMonotone ==
    [][\A i \in DOMAIN heap : heap'[i].timestamp >= heap[i].timestamp]_vars

====
